---- MODULE Spec2Model ----
(***************************************************************************)
(* Model of the Wits-Adventure REST API (routes/quests.js, routes/users.js,*)
(* routes/profile.js) over a Firestore-like document store.                *)
(*                                                                         *)
(* The store holds the collections Users and Quests.  A request handler    *)
(* that makes one store call is one action; the handlers that run a        *)
(* transaction around a query and a batch (close, approve) are one action  *)
(* per await point, and several of them can be in flight at once.          *)
(*                                                                         *)
(* Transactions follow the store's contract: the documents read with       *)
(* t.get are a consistent snapshot, the buffered writes are applied        *)
(* together at commit, and the commit goes through only if no document     *)
(* that was read has been written since; otherwise the callback runs again *)
(* or the transaction gives up with an error.                              *)
(***************************************************************************)
EXTENDS Integers, Sequences, FiniteSets, TLC

\* ------------------------------------------------------------------ bounds
Users == {"u1", "u2"}          \* the identities the verifier can return
Procs == {"p1", "p2"}          \* requests that can be in flight at once
MaxQuests == 1                 \* quest ids the store hands out
MaxSubs == 2                   \* submissions kept per quest
MaxPoints == 2                 \* leaderboard points a journey may still raise
QuestIds == 1..MaxQuests
\* the ids a request can name in :questId: those of created quests and one
\* that no quest was ever created under
RequestIds == 1..(MaxQuests + 1)
RewardValues == {2}            \* even, so that rewardPoints / 2 is exact
Names == {"A"}
Emails == {"a@b.com"}
Roles == {"player"}

\* An undefined field (or a missing body field) is the empty set, a defined
\* one the singleton of its value.
None == {}
Some(v) == {v}
Val(o) == CHOOSE v \in o : TRUE
Range(s) == {s[i] : i \in 1..Len(s)}

\* ------------------------------------------------------------- documents
NoUser ==
  [exists |-> FALSE, Email |-> "", Name |-> "", Role |-> "", LeaderBoardPoints |-> 0,
   Level |-> 0, CompletedQuests |-> <<>>, Bio |-> "", SpendablePoints |-> 0,
   Experience |-> 0, Quests |-> <<>>, ProfilePictureUrl |-> None, acceptedQuests |-> None,
   inventoryItems |-> {}, currentJourneyQuest |-> None, currentJourneyStop |-> None,
   completedJourneyQuests |-> None]

NoQuest ==
  [exists |-> FALSE, creatorId |-> "", name |-> None, radius |-> None,
   points |-> None, reward |-> None,
   acceptedQuests |-> <<>>, submissions |-> <<>>]

\* an append that does not look for an equal element
ArrayAppend(field, x) ==
  LET s == IF field = None THEN <<>> ELSE Val(field)
  IN Some(Append(s, x))

\* FieldValue.arrayUnion / arrayRemove applied to a field that may be undefined
ArrayUnion(field, x) ==
  LET s == IF field = None THEN <<>> ELSE Val(field)
  IN Some(IF x \in Range(s) THEN s ELSE Append(s, x))

ArrayRemove(field, x) ==
  LET s == IF field = None THEN <<>> ELSE Val(field)
  IN Some(SelectSeq(s, LAMBDA e : e # x))

\* the accepted-quests set of a user document (userData.acceptedQuests || [])
AcceptedSet(doc) ==
  IF doc.exists /\ doc.acceptedQuests # None THEN Range(Val(doc.acceptedQuests)) ELSE {}

\* the accepted-by set of a quest document
AcceptedBy(quest) == Range(quest.acceptedQuests)

VARIABLES
  users,        \* collection Users: user id -> document
  quests,       \* collection Quests: quest id -> document
  nextQuestId,  \* the next id the store assigns on add
  txn,          \* per request slot: the close/approve request in flight
  resp,         \* the request step just handled and its answer
  credited      \* quest id -> how many times an approve committed its awards

vars == <<users, quests, nextQuestId, txn, resp, credited>>

\* The request in a slot: where its callback stands (pc), what t.get returned
\* (rewardPoints, approvedExists; the creator is the caller once the check has
\* passed), whether a document it read was written since (stale), whether
\* its last query found a user holding the quest (found) and whether an
\* accept of the quest was committed after that query (raced).
Idle ==
  [pc |-> "idle", op |-> "", caller |-> "", qid |-> 0, approved |-> "",
   rewardPoints |-> 0, approvedExists |-> FALSE,
   stale |-> FALSE, found |-> FALSE, raced |-> FALSE,
   journey |-> "", newStop |-> 0, index |-> 0, snapshot |-> <<>>]

\* status is 0 while the request is still being handled.
\* reads: the users whose document content the answer carries;
\* storeCalls: the store calls the step made;
\* found, raced: of the close/approve just answered, whether its sweep found
\* a user and whether an accept of the quest was committed after that query;
\* before: for an accept, the accepted-by set of the quest and the
\* accepted-quests set of the caller before it, kept by the abandon of the
\* same quest by the same user that directly follows.
Resp(op, caller, status, qid, uid, reads, storeCalls) ==
  [op |-> op, caller |-> caller, status |-> status, qid |-> qid, uid |-> uid,
   reads |-> reads, storeCalls |-> storeCalls, found |-> FALSE, raced |-> FALSE,
   before |-> None]

\* a store in which a write to any user document invalidates every
\* transaction in flight
MarkStaleAnyUser(tx, wq, wu) ==
  [p \in Procs |->
     IF tx[p].pc # "idle" /\ (tx[p].qid \in wq \/ wu # {})
     THEN [tx[p] EXCEPT !.stale = TRUE]
     ELSE tx[p]]

\* A write to a document invalidates every transaction in flight that read it.
MarkStale(tx, wq, wu) ==
  [p \in Procs |->
     IF tx[p].pc # "idle" /\ (tx[p].qid \in wq \/ (tx[p].op = "approve" /\ tx[p].approved \in wu))
     THEN [tx[p] EXCEPT !.stale = TRUE]
     ELSE tx[p]]

Init ==
  /\ users = [u \in Users |-> NoUser]
  /\ quests = [q \in RequestIds |-> NoQuest]
  /\ nextQuestId = 1
  /\ txn = [p \in Procs |-> Idle]
  /\ resp = Resp("init", "", 0, 0, "", {}, 0)
  /\ credited = [q \in QuestIds |-> 0]

\* ========================================================== authentication
\* The Authorization header as its pieces between single spaces
\* (authHeader.split(' ')), None when the request carries no such header.
TokenOf == [u \in Users |-> "token-" \o u]

\* admin.auth().verifyIdToken(idToken): the decoded token, or it rejects
VerifyIdToken(idToken) ==
  IF \E u \in Users : TokenOf[u] = idToken
  THEN [ok |-> TRUE, uid |-> CHOOSE u \in Users : TokenOf[u] = idToken]
  ELSE [ok |-> FALSE, uid |-> ""]

\* a test for any scheme followed by a token
StartsWithScheme(authHeader) == Len(authHeader) >= 2

\* authHeader.startsWith('Bearer ')
StartsWithBearer(authHeader) == Len(authHeader) >= 2 /\ authHeader[1] = "Bearer"

\* authenticate: next is TRUE when next() is called, with req.user.uid = uid;
\* otherwise the middleware answers with status
AuthenticateResult(authHeader) ==
  IF authHeader = None \/ ~StartsWithBearer(Val(authHeader))
  THEN [next |-> FALSE, status |-> 401, uid |-> ""]
  ELSE LET decodedToken == VerifyIdToken(Val(authHeader)[2]) IN
       IF decodedToken.ok
       THEN [next |-> TRUE, status |-> 0, uid |-> decodedToken.uid]
       ELSE [next |-> FALSE, status |-> 401, uid |-> ""]

\* A request reaches a router that uses authenticate.  resp keeps the header
\* it came with; status 0 means next() was called and the route handler is
\* to run with req.user.uid = caller.
Authenticate(authHeader) ==
  LET r == AuthenticateResult(authHeader) IN
  /\ resp' = [op |-> "authenticate", caller |-> r.uid, status |-> r.status, qid |-> 0,
              uid |-> "", reads |-> {}, storeCalls |-> 0, found |-> FALSE, raced |-> FALSE,
              before |-> None, header |-> authHeader]
  /\ UNCHANGED <<users, quests, nextQuestId, txn, credited>>

\* next() was called for the request at hand, as uid
Passed(uid) == resp.op = "authenticate" /\ resp.status = 0 /\ resp.caller = uid

\* =================================================================== users
\* userData without the Email member
UserDataNoEmail(body) ==
  [exists |-> TRUE, Email |-> "", Name |-> body.name, Role |-> body.role,
   LeaderBoardPoints |-> 0, Level |-> 0, CompletedQuests |-> <<>>, Bio |-> "",
   SpendablePoints |-> 0, Experience |-> 0, Quests |-> <<>>,
   ProfilePictureUrl |-> None, acceptedQuests |-> None,
   inventoryItems |-> {}, currentJourneyQuest |-> None, currentJourneyStop |-> None,
   completedJourneyQuests |-> None]

\* POST /api/users: the document written by set()
UserData(body) ==
  [exists |-> TRUE, Email |-> body.email, Name |-> body.name, Role |-> body.role,
   LeaderBoardPoints |-> 0, Level |-> 0, CompletedQuests |-> <<>>, Bio |-> "",
   SpendablePoints |-> 0, Experience |-> 0, Quests |-> <<>>,
   ProfilePictureUrl |-> None, acceptedQuests |-> None,
   inventoryItems |-> {}, currentJourneyQuest |-> None, currentJourneyStop |-> None,
   completedJourneyQuests |-> None]

\* POST /api/users as caller uid: the answer, the store calls made, the write
PostUsersResult(uid, body) ==
  IF uid # body.userId
  THEN [status |-> 403, storeCalls |-> 0, write |-> FALSE, doc |-> NoUser]
  ELSE [status |-> 200, storeCalls |-> 1, write |-> TRUE, doc |-> UserData(body)]

\* a creation written with set(userData, {merge: true}): the members of
\* userData are written, every other field of the document stays
PostUsersMerge(uid, body) ==
  LET r == PostUsersResult(uid, body) IN
  /\ users' = IF r.write
              THEN [users EXCEPT ![body.userId] =
                      [r.doc EXCEPT !.acceptedQuests = users[body.userId].acceptedQuests,
                                    !.ProfilePictureUrl = users[body.userId].ProfilePictureUrl,
                                    !.completedJourneyQuests =
                                       users[body.userId].completedJourneyQuests]]
              ELSE users
  /\ txn' = MarkStale(txn, {}, IF r.write THEN {body.userId} ELSE {})
  /\ resp' = [Resp("postUser", uid, r.status, 0, body.userId, {}, r.storeCalls) EXCEPT
                !.before = IF r.write /\ users[body.userId].exists
                           THEN Some(users[body.userId]) ELSE None]
  /\ UNCHANGED <<quests, nextQuestId, credited>>

\* (before: the document the set() replaced, if there was one)
PostUsers(uid, body) ==
  LET r == PostUsersResult(uid, body) IN
  /\ users' = IF r.write THEN [users EXCEPT ![body.userId] = r.doc] ELSE users
  /\ txn' = MarkStale(txn, {}, IF r.write THEN {body.userId} ELSE {})
  /\ resp' = [Resp("postUser", uid, r.status, 0, body.userId, {}, r.storeCalls) EXCEPT
                !.before = IF r.write /\ users[body.userId].exists
                           THEN Some(users[body.userId]) ELSE None]
  /\ UNCHANGED <<quests, nextQuestId, credited>>

\* GET /api/users/:userId with the document fetched before the ids are compared
GetUserResultFetchFirst(uid, userId) ==
  IF uid # userId
  THEN [status |-> 403, storeCalls |-> 1, reads |-> {}, data |-> NoUser]
  ELSE IF ~users[userId].exists
       THEN [status |-> 404, storeCalls |-> 1, reads |-> {}, data |-> NoUser]
       ELSE [status |-> 200, storeCalls |-> 1, reads |-> {userId}, data |-> users[userId]]

\* GET /api/users/:userId as caller uid
\* (data: the body of a 200 answer, userDoc.data())
GetUserResult(uid, userId) ==
  IF uid # userId
  THEN [status |-> 403, storeCalls |-> 0, reads |-> {}, data |-> NoUser]
  ELSE IF ~users[userId].exists
       THEN [status |-> 404, storeCalls |-> 1, reads |-> {}, data |-> NoUser]
       ELSE [status |-> 200, storeCalls |-> 1, reads |-> {userId}, data |-> users[userId]]

GetUser(uid, userId) ==
  LET r == GetUserResult(uid, userId) IN
  /\ resp' = Resp("getUser", uid, r.status, 0, userId, r.reads, r.storeCalls)
  /\ UNCHANGED <<users, quests, nextQuestId, txn, credited>>

\* ================================================================== quests
\* questData with the spread last, {creatorId: req.user.uid, ...req.body}: a
\* creatorId of the body overrides the caller's
QuestDataBodyLast(body, uid) ==
  [exists |-> TRUE, creatorId |-> IF body.creatorId = None THEN uid ELSE Val(body.creatorId),
   name |-> body.name, radius |-> body.radius,
   points |-> body.points, reward |-> body.reward,
   acceptedQuests |-> <<>>, submissions |-> <<>>]

\* POST /api/quests: questData = {...req.body, creatorId: req.user.uid, ...}
QuestData(body, uid) ==
  [exists |-> TRUE, creatorId |-> uid, name |-> body.name, radius |-> body.radius,
   points |-> body.points, reward |-> body.reward,
   acceptedQuests |-> <<>>, submissions |-> <<>>]

PostQuest(uid, body) ==
  /\ nextQuestId <= MaxQuests
  /\ quests' = [quests EXCEPT ![nextQuestId] = QuestData(body, uid)]
  /\ nextQuestId' = nextQuestId + 1
  /\ txn' = MarkStale(txn, {nextQuestId}, {})
  /\ resp' = Resp("postQuest", uid, 201, nextQuestId,
                  IF body.creatorId = None THEN "" ELSE Val(body.creatorId), {}, 1)
  /\ UNCHANGED <<users, credited>>

\* PATCH /api/quests/:questId/accept: userRef.update({acceptedQuests: arrayUnion})
AcceptDoc(doc, questId) ==
  [doc EXCEPT !.acceptedQuests = ArrayUnion(doc.acceptedQuests, questId)]

\* an abandon whose update removes nothing
AbandonDocKeeps(doc, questId) == doc

\* PATCH /api/quests/:questId/abandon: userRef.update({acceptedQuests: arrayRemove})
AbandonDoc(doc, questId) ==
  [doc EXCEPT !.acceptedQuests = ArrayRemove(doc.acceptedQuests, questId)]

\* update() of a missing document fails, and the handler answers 500
Accept(userId, questId) ==
  /\ IF users[userId].exists
     THEN /\ users' = [users EXCEPT ![userId] = AcceptDoc(users[userId], questId)]
          /\ txn' = [p \in Procs |->
                      LET t == MarkStale(txn, {}, {userId})[p] IN
                      IF t.pc = "swept" /\ t.qid = questId
                      THEN [t EXCEPT !.raced = TRUE] ELSE t]
          /\ resp' = [Resp("accept", userId, 200, questId, userId, {}, 1) EXCEPT
                        !.before = Some([by |-> AcceptedBy(quests[questId]),
                                         held |-> AcceptedSet(users[userId])])]
     ELSE /\ resp' = Resp("accept", userId, 500, questId, userId, {}, 1)
          /\ UNCHANGED <<users, txn>>
  /\ UNCHANGED <<quests, nextQuestId, credited>>

Abandon(userId, questId) ==
  /\ IF users[userId].exists
     THEN /\ users' = [users EXCEPT ![userId] = AbandonDoc(users[userId], questId)]
          /\ txn' = MarkStale(txn, {}, {userId})
          /\ resp' = [Resp("abandon", userId, 200, questId, userId, {}, 1) EXCEPT
                        !.before = IF    resp.op = "accept" /\ resp.status = 200
                                      /\ resp.caller = userId /\ resp.qid = questId
                                   THEN resp.before ELSE None]
     ELSE /\ resp' = Resp("abandon", userId, 500, questId, userId, {}, 1)
          /\ UNCHANGED <<users, txn>>
  /\ UNCHANGED <<quests, nextQuestId, credited>>

\* PATCH /api/quests/:questId/submit.  The new submission carries
\* FieldValue.serverTimestamp() as submittedAt.  A store that takes the
\* element gives it a time of its own, so arrayUnion finds no equal element
\* and appends it; a store that refuses a transform inside an array element
\* rejects the update (refused), and the handler answers 500.
NewSubmission(userId) == [userId |-> userId, status |-> "pending"]

\* questRef.update({submissions: arrayUnion(newSubmission)})
SubmitUpdate(submissions, userId) == Append(submissions, NewSubmission(userId))

\* a submit written with set(..., {merge: true}), which creates the
\* document it does not find
SubmitUpsert(userId, questId, bodyOk, refused) ==
  /\ bodyOk /\ ~refused
  /\ Len(quests[questId].submissions) < MaxSubs
  /\ quests' = [quests EXCEPT
                  ![questId].exists = TRUE,
                  ![questId].submissions = SubmitUpdate(@, userId)]
  /\ txn' = MarkStale(txn, {questId}, {})
  /\ resp' = Resp("submit", userId, 200, questId, userId, {}, 1)
  /\ UNCHANGED <<users, nextQuestId, credited>>

Submit(userId, questId, bodyOk, refused) ==
  /\ IF ~bodyOk
     THEN /\ resp' = Resp("submit", userId, 400, questId, userId, {}, 0)
          /\ UNCHANGED <<quests, txn>>
     ELSE IF ~quests[questId].exists \/ refused
     THEN /\ resp' = Resp("submit", userId, 500, questId, userId, {}, 1)
          /\ UNCHANGED <<quests, txn>>
     ELSE /\ Len(quests[questId].submissions) < MaxSubs
          /\ quests' = [quests EXCEPT
                          ![questId].submissions = SubmitUpdate(@, userId)]
          /\ txn' = MarkStale(txn, {questId}, {})
          /\ resp' = Resp("submit", userId, 200, questId, userId, {}, 1)
  /\ UNCHANGED <<users, nextQuestId, credited>>

\* The handlers choose the status from the text of the error message.
MsgNotFound == "Quest not found."
MsgForbidden == "Forbidden: Not the creator."
MsgForbiddenApprove == "Forbidden: Only the quest creator can approve submissions."
MsgInvalidIndex == "Invalid submission index."
MsgStore == "NOT_FOUND: No document to update"
MsgContention == "ABORTED: Too much contention on these documents"
IncludesForbidden == {MsgForbidden, MsgForbiddenApprove}
IncludesNotFound == {MsgNotFound}

\* a handler that answers 500 whatever the message
StatusOfAny(message) == 500

\* error.message.includes("Forbidden") ? 403 : 500  (remove, remove-by-user, close)
StatusOf(message) == IF message \in IncludesForbidden THEN 403 ELSE 500

\* approve: 500, 403 on "Forbidden", 404 on "not found"
ApproveStatusOf(message) ==
  IF message \in IncludesNotFound THEN 404
  ELSE IF message \in IncludesForbidden THEN 403
  ELSE 500

\* GET /api/quests/:questId/submissions
ListSubmissionsStatus(uid, quest) ==
  IF ~quest.exists THEN 404
  ELSE IF quest.creatorId # uid THEN 403
  ELSE 200

ListSubmissions(uid, questId) ==
  /\ resp' = Resp("listSubmissions", uid, ListSubmissionsStatus(uid, quests[questId]),
                  questId, "", {}, 1)
  /\ UNCHANGED <<users, quests, nextQuestId, txn, credited>>

\* a filter that counts the positions from 1
RemoveAtOneBased(submissions, submissionIndex) ==
  LET keep == {i \in 1..Len(submissions) : i # submissionIndex}
      F[i \in 0..Len(submissions)] ==
        IF i = 0 THEN <<>>
        ELSE IF i \in keep THEN Append(F[i - 1], submissions[i]) ELSE F[i - 1]
  IN F[Len(submissions)]

\* submissions.filter((_, index) => index !== submissionIndex), indices from 0
RemoveAt(submissions, submissionIndex) ==
  LET keep == {i \in 1..Len(submissions) : i - 1 # submissionIndex}
      F[i \in 0..Len(submissions)] ==
        IF i = 0 THEN <<>>
        ELSE IF i \in keep THEN Append(F[i - 1], submissions[i]) ELSE F[i - 1]
  IN F[Len(submissions)]

\* PATCH /api/quests/:questId/submissions/remove.  submissionIndex is None
\* when the body holds no number.  The transaction reads and writes the one
\* quest document, so it takes effect as one step.
RemoveByIndexResult(uid, quest, submissionIndex) ==
  IF submissionIndex = None \/ Val(submissionIndex) < 0
  THEN [status |-> 400, storeCalls |-> 0, write |-> FALSE, submissions |-> quest.submissions]
  ELSE IF ~quest.exists
  THEN [status |-> StatusOf(MsgNotFound), storeCalls |-> 1, write |-> FALSE,
        submissions |-> quest.submissions]
  ELSE IF quest.creatorId # uid
  THEN [status |-> StatusOf(MsgForbidden), storeCalls |-> 1, write |-> FALSE,
        submissions |-> quest.submissions]
  ELSE IF Val(submissionIndex) >= Len(quest.submissions)
  THEN [status |-> StatusOf(MsgInvalidIndex), storeCalls |-> 1, write |-> FALSE,
        submissions |-> quest.submissions]
  ELSE [status |-> 200, storeCalls |-> 1, write |-> TRUE,
        submissions |-> RemoveAt(quest.submissions, Val(submissionIndex))]

RemoveByIndex(uid, questId, submissionIndex) ==
  LET r == RemoveByIndexResult(uid, quests[questId], submissionIndex) IN
  /\ quests' = IF r.write THEN [quests EXCEPT ![questId].submissions = r.submissions]
               ELSE quests
  /\ txn' = MarkStale(txn, IF r.write THEN {questId} ELSE {}, {})
  /\ resp' = Resp("removeByIndex", uid, r.status, questId, "", {}, r.storeCalls)
  /\ UNCHANGED <<users, nextQuestId, credited>>

\* PATCH /api/quests/:questId/submissions/remove-by-user
RemoveByUserResult(uid, quest, userIdToRemove) ==
  IF userIdToRemove = None
  THEN [status |-> 400, storeCalls |-> 0, write |-> FALSE, submissions |-> quest.submissions]
  ELSE IF ~quest.exists
  THEN [status |-> StatusOf(MsgNotFound), storeCalls |-> 1, write |-> FALSE,
        submissions |-> quest.submissions]
  ELSE IF quest.creatorId # uid
  THEN [status |-> StatusOf(MsgForbidden), storeCalls |-> 1, write |-> FALSE,
        submissions |-> quest.submissions]
  ELSE [status |-> 200, storeCalls |-> 1, write |-> TRUE,
        submissions |-> SelectSeq(quest.submissions,
                                  LAMBDA sub : sub.userId # Val(userIdToRemove))]

RemoveByUser(uid, questId, userIdToRemove) ==
  LET r == RemoveByUserResult(uid, quests[questId], userIdToRemove) IN
  /\ quests' = IF r.write THEN [quests EXCEPT ![questId].submissions = r.submissions]
               ELSE quests
  /\ txn' = MarkStale(txn, IF r.write THEN {questId} ELSE {}, {})
  /\ resp' = Resp("removeByUser", uid, r.status, questId, "", {}, r.storeCalls)
  /\ UNCHANGED <<users, nextQuestId, credited>>

\* ------------------------------------------- close and approve, step by step
\* The status of a failed close / approve
TxnStatusOf(op, message) ==
  IF op = "approve" THEN ApproveStatusOf(message) ELSE StatusOf(message)

\* the callback without the comparison of questData.creatorId to the caller
CallbackErrorNoCreatorCheck(op, uid, quest) ==
  IF ~quest.exists THEN MsgNotFound ELSE ""

\* The error thrown by the callback after t.get(questRef), "" if none
CallbackError(op, uid, quest) ==
  IF ~quest.exists THEN MsgNotFound
  ELSE IF quest.creatorId # uid
  THEN (IF op = "approve" THEN MsgForbiddenApprove ELSE MsgForbidden)
  ELSE ""

\* const rewardPoints = questData.points || 0
RewardPoints(quest) == IF quest.points = None THEN 0 ELSE Val(quest.points)

\* The start of the transaction callback in slot p: t.get(questRef), the
\* existence and creator checks and, for approve, t.get(approvedUserRef).
CallbackRead(p, op, uid, questId, approvedUserId) ==
  LET err == CallbackError(op, uid, quests[questId]) IN
  /\ IF err # ""
     THEN /\ txn' = [txn EXCEPT ![p] = Idle]
          /\ resp' = Resp(op, uid, TxnStatusOf(op, err), questId, approvedUserId, {}, 1)
     ELSE /\ txn' = [txn EXCEPT ![p] =
                       [Idle EXCEPT
                        !.pc = "read", !.op = op, !.caller = uid, !.qid = questId,
                        !.approved = approvedUserId,
                        !.rewardPoints = IF op = "approve" THEN RewardPoints(quests[questId])
                                         ELSE 0,
                        !.approvedExists = (op = "approve" /\ users[approvedUserId].exists)]]
          /\ resp' = Resp(op, uid, 0, questId, approvedUserId, {}, 1)
  /\ UNCHANGED <<users, quests, nextQuestId, credited>>

\* DELETE /api/quests/:questId arrives in slot p
CloseBegin(p, uid, questId) ==
  /\ txn[p].pc = "idle"
  /\ CallbackRead(p, "close", uid, questId, "")

\* POST /api/quests/:questId/approve arrives in slot p; approvedUserId is
\* None when the body does not carry it.
ApproveBegin(p, uid, questId, approvedUserId) ==
  /\ txn[p].pc = "idle"
  /\ IF approvedUserId = None
     THEN /\ resp' = Resp("approve", uid, 400, questId, "", {}, 0)
          /\ UNCHANGED <<users, quests, nextQuestId, txn, credited>>
     ELSE CallbackRead(p, "approve", uid, questId, Val(approvedUserId))

\* db.collection("Users").where('acceptedQuests', 'array-contains', questId).get()
UsersToClean(us, questId) == {u \in Users : questId \in AcceptedSet(us[u])}

\* a sweep whose batch resets the whole array of each user found
SweepUsersClearArray(us, toClean, questId) ==
  [u \in Users |-> IF u \in toClean THEN [us[u] EXCEPT !.acceptedQuests = Some(<<>>)]
                                    ELSE us[u]]

\* a sweep whose batch holds no update
SweepUsersEmptyBatch(us, toClean, questId) == us

\* batch.update(userRef, {acceptedQuests: arrayRemove(questId)}) for each
\* user found
SweepUsers(us, toClean, questId) ==
  [u \in Users |-> IF u \in toClean THEN AbandonDoc(us[u], questId) ELSE us[u]]

\* The sweep inside the callback: the query and batch.commit(), a write of
\* its own that does not wait for the transaction.  A write between the
\* query and the batch has the effect it would have right after the batch
\* (an accept by a user the query missed) or right before the query, so the
\* two calls are taken as one step.
TxnSweep(p) ==
  LET t == txn[p]
      toClean == UsersToClean(users, t.qid) IN
  /\ t.pc = "read"
  /\ users' = SweepUsers(users, toClean, t.qid)
  /\ txn' = [MarkStale(txn, {}, toClean) EXCEPT
               ![p].pc = "swept", ![p].found = (toClean # {}), ![p].raced = FALSE]
  /\ resp' = Resp(t.op, t.caller, 0, t.qid, t.approved, {}, 2)
  /\ UNCHANGED <<quests, nextQuestId, credited>>

\* an approve that buffers no update of the approved user
AwardDocSkipped(doc, rewardPoints, questId) == doc

\* t.update(approvedUserRef, {SpendablePoints: increment(rewardPoints),
\*   LeaderBoardPoints: increment(rewardPoints), acceptedQuests: arrayRemove(questId)})
AwardDoc(doc, rewardPoints, questId) ==
  [doc EXCEPT !.SpendablePoints = @ + rewardPoints,
              !.LeaderBoardPoints = @ + rewardPoints,
              !.acceptedQuests = ArrayRemove(doc.acceptedQuests, questId)]

\* t.update(creatorRef, {SpendablePoints: increment(rewardPoints / 2)})
CreatorAwardDoc(doc, rewardPoints) ==
  [doc EXCEPT !.SpendablePoints = @ + (rewardPoints \div 2)]

\* The writes the approve callback buffered, applied to the users at commit:
\* the award to the approved user if t.get found the document, the creator's
\* share if the creator is someone else.  An update of a missing document
\* fails the commit.
ApproveWrites(us, t) ==
  LET awarded == IF t.approvedExists
                 THEN [us EXCEPT ![t.approved] = AwardDoc(@, t.rewardPoints, t.qid)]
                 ELSE us
  IN IF t.caller # t.approved
     THEN IF us[t.caller].exists
          THEN [ok |-> TRUE,
                users |-> [awarded EXCEPT ![t.caller] = CreatorAwardDoc(@, t.rewardPoints)],
                written |-> {t.caller} \cup {u \in {t.approved} : t.approvedExists}]
          ELSE [ok |-> FALSE, users |-> us, written |-> {}]
     ELSE [ok |-> TRUE, users |-> awarded,
           written |-> {u \in {t.approved} : t.approvedExists}]

\* a commit that does not validate what the transaction read
CanCommitUnchecked(t) == TRUE

\* The commit goes through only if nothing the transaction read was written since.
CanCommit(t) == ~t.stale

\* The callback returned: the transaction commits, t.delete(questRef) included.
TxnCommit(p) ==
  LET t == txn[p]
      w == IF t.op = "approve" THEN ApproveWrites(users, t)
           ELSE [ok |-> TRUE, users |-> users, written |-> {}]
  IN
  /\ t.pc = "swept"
  /\ CanCommit(t)
  /\ IF w.ok
     THEN /\ users' = w.users
          /\ quests' = [quests EXCEPT ![t.qid] = NoQuest]
          /\ txn' = [MarkStale(txn, {t.qid}, w.written) EXCEPT ![p] = Idle]
          /\ credited' = IF t.op = "approve" THEN [credited EXCEPT ![t.qid] = @ + 1]
                         ELSE credited
          /\ resp' = [Resp(t.op, t.caller, 200, t.qid, t.approved, {}, 1) EXCEPT
                        !.found = t.found, !.raced = t.raced]
     ELSE /\ txn' = [txn EXCEPT ![p] = Idle]
          /\ resp' = Resp(t.op, t.caller, TxnStatusOf(t.op, MsgStore), t.qid, t.approved, {}, 1)
          /\ UNCHANGED <<users, quests, credited>>
  /\ UNCHANGED nextQuestId

\* A document read was written in the meantime: the callback runs again ...
TxnRetry(p) ==
  /\ txn[p].pc = "swept"
  /\ ~CanCommit(txn[p])
  /\ CallbackRead(p, txn[p].op, txn[p].caller, txn[p].qid, txn[p].approved)

\* ... or the transaction gives up and runTransaction rejects.
TxnAbort(p) ==
  /\ txn[p].pc = "swept"
  /\ ~CanCommit(txn[p])
  /\ txn' = [txn EXCEPT ![p] = Idle]
  /\ resp' = Resp(txn[p].op, txn[p].caller, TxnStatusOf(txn[p].op, MsgContention),
                  txn[p].qid, txn[p].approved, {}, 1)
  /\ UNCHANGED <<users, quests, nextQuestId, credited>>

\* ========================================================== users/profile
\* updateObj: the members Name, Bio, ProfilePictureUrl the body defines
EmptyUpdateObj(body) ==
  body.Name = None /\ body.Bio = None /\ body.ProfilePictureUrl = None

\* an update that writes all three fields, an absent one as empty
ApplyUpdateObjReplace(doc, body) ==
  [doc EXCEPT !.Name = IF body.Name = None THEN "" ELSE Val(body.Name),
              !.Bio = IF body.Bio = None THEN "" ELSE Val(body.Bio),
              !.ProfilePictureUrl = body.ProfilePictureUrl]

\* userDocRef.update(updateObj)
ApplyUpdateObj(doc, body) ==
  [doc EXCEPT !.Name = IF body.Name = None THEN @ ELSE Val(body.Name),
              !.Bio = IF body.Bio = None THEN @ ELSE Val(body.Bio),
              !.ProfilePictureUrl = IF body.ProfilePictureUrl = None THEN @
                                    ELSE body.ProfilePictureUrl]

\* GET /api/users/profile
GetProfileResult(userId) ==
  IF ~users[userId].exists
  THEN [status |-> 404, reads |-> {}]
  ELSE [status |-> 200, reads |-> {userId}]

GetProfile(userId) ==
  LET r == GetProfileResult(userId) IN
  /\ resp' = Resp("getProfile", userId, r.status, 0, userId, r.reads, 1)
  /\ UNCHANGED <<users, quests, nextQuestId, txn, credited>>

\* PATCH /api/users/profile
PatchProfileResult(requestingUserId, body) ==
  IF Some(requestingUserId) # body.uid
  THEN [status |-> 403, storeCalls |-> 0, write |-> FALSE]
  ELSE IF EmptyUpdateObj(body)
  THEN [status |-> 200, storeCalls |-> 0, write |-> FALSE]
  ELSE IF ~users[requestingUserId].exists
  THEN [status |-> 500, storeCalls |-> 1, write |-> FALSE]
  ELSE [status |-> 200, storeCalls |-> 1, write |-> TRUE]

PatchProfile(requestingUserId, body) ==
  LET r == PatchProfileResult(requestingUserId, body) IN
  /\ users' = IF r.write
              THEN [users EXCEPT ![requestingUserId] = ApplyUpdateObj(@, body)]
              ELSE users
  /\ txn' = MarkStale(txn, {}, IF r.write THEN {requestingUserId} ELSE {})
  /\ resp' = [op |-> "patchProfile", caller |-> requestingUserId, status |-> r.status,
              qid |-> 0, uid |-> IF body.uid = None THEN "" ELSE Val(body.uid),
              reads |-> {}, storeCalls |-> r.storeCalls, found |-> FALSE,
              raced |-> FALSE, before |-> None, body |-> body]
  /\ UNCHANGED <<quests, nextQuestId, credited>>

\* ================================================================= profile
\* routes/profile.js is mounted at /api/profile without the authenticate
\* middleware: uid comes from the query or the body.  `caller` is who sends
\* the request; the handlers never look at it.

\* GET /api/profile?uid=
ProfileGetResult(uid) ==
  IF uid = None THEN [status |-> 400, storeCalls |-> 0, reads |-> {}]
  ELSE IF ~users[Val(uid)].exists THEN [status |-> 404, storeCalls |-> 1, reads |-> {}]
  ELSE [status |-> 200, storeCalls |-> 1, reads |-> {Val(uid)}]

ProfileGet(caller, uid) ==
  LET r == ProfileGetResult(uid) IN
  /\ resp' = Resp("profileGet", caller, r.status, 0, IF uid = None THEN "" ELSE Val(uid),
                  r.reads, r.storeCalls)
  /\ UNCHANGED <<users, quests, nextQuestId, txn, credited>>

\* POST /api/profile/update: update(updateObj) fails on an empty updateObj
\* and on a missing document, and the handler answers 500.
ProfileUpdateResult(body) ==
  IF body.uid = None THEN [status |-> 400, storeCalls |-> 0, write |-> FALSE]
  ELSE IF EmptyUpdateObj(body) \/ ~users[Val(body.uid)].exists
  THEN [status |-> 500, storeCalls |-> 1, write |-> FALSE]
  ELSE [status |-> 200, storeCalls |-> 1, write |-> TRUE]

ProfileUpdate(caller, body) ==
  LET r == ProfileUpdateResult(body)
      uid == IF body.uid = None THEN "" ELSE Val(body.uid) IN
  /\ users' = IF r.write THEN [users EXCEPT ![uid] = ApplyUpdateObj(@, body)] ELSE users
  /\ txn' = MarkStale(txn, {}, IF r.write THEN {uid} ELSE {})
  /\ resp' = Resp("profileUpdate", caller, r.status, 0, uid, {}, r.storeCalls)
  /\ UNCHANGED <<quests, nextQuestId, credited>>

\* The fields batch.update resets on every user document
\* (Level, CompletedQuests, Bio, SpendablePoints, Experience, Quests)
DefaultFields(doc) ==
  [doc EXCEPT !.Level = 0, !.CompletedQuests = <<>>, !.Bio = "", !.SpendablePoints = 0,
              !.Experience = 0, !.Quests = <<>>]

\* POST /api/profile/add-fields and POST /api/users/init-fields: get() of the
\* whole Users collection, then one batch that updates every document found.
\* The batch sets constants, and a document created after the get() holds
\* them already, so the two calls are taken as one step.
ResetAllUsers(op, caller) ==
  LET found == {u \in Users : users[u].exists} IN
  /\ users' = [u \in Users |-> IF u \in found THEN DefaultFields(users[u]) ELSE users[u]]
  /\ txn' = MarkStale(txn, {}, found)
  /\ resp' = Resp(op, caller, 200, 0, "", {}, IF found = {} THEN 1 ELSE 2)
  /\ UNCHANGED <<quests, nextQuestId, credited>>

AddFields(caller) == ResetAllUsers("addFields", caller)

InitFields(uid) == ResetAllUsers("initFields", uid)

\* =============================================================== inventory
\* POST /api/users/inventory/unlock, unlockInventoryItem(userId, itemId, cost).
\* inventoryItems is the set of the item ids whose flag is true.  The read of
\* the points and the write of the decremented value are one transaction on
\* the one user document, so the unlock takes effect as one step.
ErrAlreadyUnlocked == "already unlocked"
ErrInsufficientPoints == "insufficient points"

\* an unlock that does not look at the item's flag
UnlockResultNoFlagCheck(doc, itemId, cost) ==
  IF ~doc.exists
  THEN [status |-> 500, error |-> "", write |-> FALSE, doc |-> doc]
  ELSE IF doc.SpendablePoints < cost
  THEN [status |-> 400, error |-> ErrInsufficientPoints, write |-> FALSE, doc |-> doc]
  ELSE [status |-> 200, error |-> "", write |-> TRUE,
        doc |-> [doc EXCEPT !.SpendablePoints = @ - cost,
                            !.inventoryItems = @ \cup {itemId}]]

\* an unlock that does not compare the points to the cost
UnlockResultNoPointsCheck(doc, itemId, cost) ==
  IF ~doc.exists
  THEN [status |-> 500, error |-> "", write |-> FALSE, doc |-> doc]
  ELSE IF itemId \in doc.inventoryItems
  THEN [status |-> 400, error |-> ErrAlreadyUnlocked, write |-> FALSE, doc |-> doc]
  ELSE [status |-> 200, error |-> "", write |-> TRUE,
        doc |-> [doc EXCEPT !.SpendablePoints = @ - cost,
                            !.inventoryItems = @ \cup {itemId}]]

UnlockResult(doc, itemId, cost) ==
  IF ~doc.exists
  THEN [status |-> 500, error |-> "", write |-> FALSE, doc |-> doc]
  ELSE IF itemId \in doc.inventoryItems
  THEN [status |-> 400, error |-> ErrAlreadyUnlocked, write |-> FALSE, doc |-> doc]
  ELSE IF doc.SpendablePoints < cost
  THEN [status |-> 400, error |-> ErrInsufficientPoints, write |-> FALSE, doc |-> doc]
  ELSE [status |-> 200, error |-> "", write |-> TRUE,
        doc |-> [doc EXCEPT !.SpendablePoints = @ - cost,
                            !.inventoryItems = @ \cup {itemId}]]

Unlock(uid, itemId, cost) ==
  LET r == UnlockResult(users[uid], itemId, cost) IN
  /\ users' = IF r.write THEN [users EXCEPT ![uid] = r.doc] ELSE users
  /\ txn' = MarkStale(txn, {}, IF r.write THEN {uid} ELSE {})
  /\ resp' = [op |-> "unlock", caller |-> uid, status |-> r.status, qid |-> 0,
              uid |-> uid, reads |-> {}, storeCalls |-> 1, found |-> FALSE,
              raced |-> FALSE, before |-> None,
              item |-> itemId, cost |-> cost, error |-> r.error]
  /\ UNCHANGED <<quests, nextQuestId, credited>>

\* ------------------------------------- remove by index, store call by store call
\* The transaction of PATCH /:questId/submissions/remove in slot p, for
\* requests that run next to other writes of the quest document.  The
\* callback reads the quest (t.get), decides and buffers the update; the
\* commit applies it if the document was not written since the read, else
\* the callback runs again on the document as it then is, or the transaction
\* gives up.
RemoveCallback(p, uid, questId, submissionIndex, again) ==
  LET r == RemoveByIndexResult(uid, quests[questId], submissionIndex) IN
  /\ IF r.write
     THEN /\ txn' = [txn EXCEPT ![p] =
                       [Idle EXCEPT !.pc = "removing", !.op = "removeByIndex",
                                    !.caller = uid, !.qid = questId,
                                    !.index = Val(submissionIndex),
                                    !.snapshot = quests[questId].submissions,
                                    !.raced = again]]
          /\ resp' = Resp("removeByIndex", uid, 0, questId, "", {}, 1)
     ELSE /\ txn' = [txn EXCEPT ![p] = Idle]
          /\ resp' = Resp("removeByIndex", uid, r.status, questId, "", {}, r.storeCalls)
  /\ UNCHANGED <<users, quests, nextQuestId, credited>>

RemoveBegin(p, uid, questId, submissionIndex) ==
  /\ txn[p].pc = "idle"
  /\ RemoveCallback(p, uid, questId, submissionIndex, FALSE)

RemoveCommit(p) ==
  LET t == txn[p] IN
  /\ t.pc = "removing"
  /\ CanCommit(t)
  /\ quests' = [quests EXCEPT ![t.qid].submissions = RemoveAt(t.snapshot, t.index)]
  /\ txn' = [MarkStale(txn, {t.qid}, {}) EXCEPT ![p] = Idle]
  /\ resp' = [Resp("removeByIndex", t.caller, 200, t.qid, "", {}, 1) EXCEPT
                !.raced = t.raced,
                !.before = Some([index |-> t.index, read |-> t.snapshot])]
  /\ UNCHANGED <<users, nextQuestId, credited>>

RemoveRetry(p) ==
  /\ txn[p].pc = "removing"
  /\ ~CanCommit(txn[p])
  /\ RemoveCallback(p, txn[p].caller, txn[p].qid, Some(txn[p].index), TRUE)

RemoveAbort(p) ==
  /\ txn[p].pc = "removing"
  /\ ~CanCommit(txn[p])
  /\ txn' = [txn EXCEPT ![p] = Idle]
  /\ resp' = Resp("removeByIndex", txn[p].caller, StatusOf(MsgContention), txn[p].qid, "", {}, 1)
  /\ UNCHANGED <<users, quests, nextQuestId, credited>>

\* =========================================================== journey quests
\* The PATCH routes of the quests router with two path segments, in the order
\* they are registered.  The router hands a request to the first route whose
\* path matches, and no handler passes the request on.
PatchRoutesJourneyFirst ==
  << [first |-> "journey", rest |-> "accept", handler |-> "journeyAccept"],
     [first |-> "journey", rest |-> "advance", handler |-> "journeyAdvance"],
     [first |-> "journey", rest |-> "abandon", handler |-> "journeyAbandon"],
     [first |-> ":questId", rest |-> "accept", handler |-> "accept"],
     [first |-> ":questId", rest |-> "abandon", handler |-> "abandon"],
     [first |-> ":questId", rest |-> "submit", handler |-> "submit"] >>

PatchRoutes ==
  << [first |-> ":questId", rest |-> "accept", handler |-> "accept"],
     [first |-> ":questId", rest |-> "abandon", handler |-> "abandon"],
     [first |-> ":questId", rest |-> "submit", handler |-> "submit"],
     [first |-> "journey", rest |-> "accept", handler |-> "journeyAccept"],
     [first |-> "journey", rest |-> "advance", handler |-> "journeyAdvance"],
     [first |-> "journey", rest |-> "abandon", handler |-> "journeyAbandon"] >>

\* a parameter segment matches any text
RouteMatches(route, first, rest) ==
  (route.first = ":questId" \/ route.first = first) /\ route.rest = rest

PatchHandler(first, rest) ==
  LET hits == {i \in 1..Len(PatchRoutes) : RouteMatches(PatchRoutes[i], first, rest)}
      i == CHOOSE i \in hits : \A k \in hits : i <= k
  IN PatchRoutes[i].handler

\* req.params.questId of a request for /journey/... that the route
\* /:questId/... takes: the text "journey", the id of no quest document
JourneyAsQuestId == MaxQuests + 1

\* userData.currentJourneyStop || 1
JourneyStopOf(doc) ==
  IF doc.currentJourneyStop = None THEN 1 ELSE Val(doc.currentJourneyStop)

\* userData.completedJourneyQuests || []
CompletedJourneys(doc) ==
  IF doc.completedJourneyQuests = None THEN <<>> ELSE Val(doc.completedJourneyQuests)

\* set(data, {merge: true}) writes into the document or creates it
MergeTarget(doc) == IF doc.exists THEN doc ELSE [NoUser EXCEPT !.exists = TRUE]

\* GET /api/quests/journey/progress: the progress of the caller; a caller
\* without a user document gets one that holds the initial progress
ProgressDoc(doc) ==
  [MergeTarget(doc) EXCEPT !.currentJourneyQuest = None,
                           !.currentJourneyStop = Some(1),
                           !.completedJourneyQuests = Some(<<>>)]

\* a progress request that writes the initial progress whether or not the
\* document exists
JourneyProgressAlwaysSets(userId) ==
  /\ users' = [users EXCEPT ![userId] = ProgressDoc(@)]
  /\ txn' = MarkStale(txn, {}, {userId})
  /\ resp' = Resp("journeyProgress", userId, 200, 0, userId, {}, 2)
  /\ UNCHANGED <<quests, nextQuestId, credited>>

JourneyProgress(userId) ==
  /\ IF users[userId].exists
     THEN /\ resp' = Resp("journeyProgress", userId, 200, 0, userId, {userId}, 1)
          /\ UNCHANGED <<users, txn>>
     ELSE /\ users' = [users EXCEPT ![userId] = ProgressDoc(@)]
          /\ txn' = MarkStale(txn, {}, {userId})
          /\ resp' = Resp("journeyProgress", userId, 200, 0, userId, {}, 2)
  /\ UNCHANGED <<quests, nextQuestId, credited>>

\* the handler of PATCH /journey/accept:
\* set({currentJourneyQuest: journeyQuestId, currentJourneyStop: 1}, {merge: true})
JourneyAcceptDoc(doc, journeyQuestId) ==
  [MergeTarget(doc) EXCEPT !.currentJourneyQuest = Some(journeyQuestId),
                           !.currentJourneyStop = Some(1)]

JourneyAccept(userId, journeyQuestId) ==
  /\ IF journeyQuestId = None
     THEN /\ resp' = Resp("journeyAccept", userId, 400, 0, userId, {}, 0)
          /\ UNCHANGED <<users, txn>>
     ELSE /\ users' = [users EXCEPT ![userId] = JourneyAcceptDoc(@, Val(journeyQuestId))]
          /\ txn' = MarkStale(txn, {}, {userId})
          /\ resp' = Resp("journeyAccept", userId, 200, 0, userId, {}, 1)
  /\ UNCHANGED <<quests, nextQuestId, credited>>

\* the handler of PATCH /journey/abandon:
\* update({currentJourneyQuest: null, currentJourneyStop: 1})
JourneyAbandonDoc(doc) ==
  [doc EXCEPT !.currentJourneyQuest = None, !.currentJourneyStop = Some(1)]

JourneyAbandon(userId) ==
  /\ IF users[userId].exists
     THEN /\ users' = [users EXCEPT ![userId] = JourneyAbandonDoc(@)]
          /\ txn' = MarkStale(txn, {}, {userId})
          /\ resp' = Resp("journeyAbandon", userId, 200, 0, userId, {}, 1)
     ELSE /\ resp' = Resp("journeyAbandon", userId, 500, 0, userId, {}, 1)
          /\ UNCHANGED <<users, txn>>
  /\ UNCHANGED <<quests, nextQuestId, credited>>

\* A request PATCH /api/quests/journey/accept and one for .../journey/abandon,
\* each run by the handler the router finds for it.
PatchJourneyAccept(userId, journeyQuestId) ==
  IF PatchHandler("journey", "accept") = "accept"
  THEN Accept(userId, JourneyAsQuestId)
  ELSE JourneyAccept(userId, journeyQuestId)

PatchJourneyAbandon(userId) ==
  IF PatchHandler("journey", "abandon") = "abandon"
  THEN Abandon(userId, JourneyAsQuestId)
  ELSE JourneyAbandon(userId)

\* an advance that does not compare the journey with the current one
AdvanceAllowedUnchecked(doc, journeyQuestId) == TRUE

\* userDoc.data()?.currentJourneyQuest !== journeyQuestId answers 403
AdvanceAllowed(doc, journeyQuestId) ==
  doc.exists /\ doc.currentJourneyQuest = Some(journeyQuestId)

\* PATCH /api/quests/journey/advance in slot p: the checks of the body, then
\* userRef.get() and the comparison; the update is a store call of its own.
AdvanceBegin(p, userId, journeyQuestId, newStop) ==
  /\ txn[p].pc = "idle"
  /\ PatchHandler("journey", "advance") = "journeyAdvance"
  /\ IF journeyQuestId = None \/ newStop < 1
     THEN /\ resp' = Resp("journeyAdvance", userId, 400, 0, userId, {}, 0)
          /\ UNCHANGED txn
     ELSE IF ~AdvanceAllowed(users[userId], Val(journeyQuestId))
     THEN /\ resp' = Resp("journeyAdvance", userId, 403, 0, userId, {}, 1)
          /\ UNCHANGED txn
     ELSE /\ txn' = [txn EXCEPT ![p] =
                       [Idle EXCEPT !.pc = "advancing", !.op = "journeyAdvance",
                                    !.caller = userId, !.journey = Val(journeyQuestId),
                                    !.newStop = newStop]]
          /\ resp' = Resp("journeyAdvance", userId, 0, 0, userId, {}, 1)
  /\ UNCHANGED <<users, quests, nextQuestId, credited>>

\* userRef.update({currentJourneyStop: newStop})
AdvanceWrite(p) ==
  LET t == txn[p] IN
  /\ t.pc = "advancing"
  /\ IF users[t.caller].exists
     THEN /\ users' = [users EXCEPT ![t.caller].currentJourneyStop = Some(t.newStop)]
          /\ txn' = [MarkStale(txn, {}, {t.caller}) EXCEPT ![p] = Idle]
          /\ resp' = [Resp("journeyAdvance", t.caller, 200, 0, t.caller, {}, 1) EXCEPT
                        !.before = Some([journey |-> t.journey,
                                         current |-> users[t.caller].currentJourneyQuest])]
     ELSE /\ txn' = [txn EXCEPT ![p] = Idle]
          /\ resp' = Resp("journeyAdvance", t.caller, 500, 0, t.caller, {}, 1)
          /\ UNCHANGED users
  /\ UNCHANGED <<quests, nextQuestId, credited>>

\* A request PATCH /api/quests/journey/advance in slot p, at the store call
\* it has come to.
PatchJourneyAdvance(p, userId, journeyQuestId, newStop) ==
  IF txn[p].pc = "advancing"
  THEN AdvanceWrite(p)
  ELSE AdvanceBegin(p, userId, journeyQuestId, newStop)

\* POST /api/quests/journey/complete: one transaction on the caller's
\* document, which reads it and writes it from what it read
CompleteDoc(doc, journeyQuestId, rewardPoints) ==
  LET completedQuests == CompletedJourneys(doc) IN
  [doc EXCEPT !.currentJourneyQuest = None,
              !.currentJourneyStop = Some(1),
              !.completedJourneyQuests =
                 Some(IF journeyQuestId \in Range(completedQuests) THEN completedQuests
                      ELSE Append(completedQuests, journeyQuestId)),
              !.SpendablePoints = @ + rewardPoints,
              !.LeaderBoardPoints = @ + rewardPoints]

JourneyComplete(userId, journeyQuestId, rewardPoints) ==
  /\ IF journeyQuestId = None \/ rewardPoints < 0
     THEN /\ resp' = Resp("journeyComplete", userId, 400, 0, userId, {}, 0)
          /\ UNCHANGED <<users, txn>>
     ELSE IF ~users[userId].exists
     THEN /\ resp' = Resp("journeyComplete", userId, 500, 0, userId, {}, 1)
          /\ UNCHANGED <<users, txn>>
     ELSE /\ users[userId].LeaderBoardPoints + rewardPoints <= MaxPoints
          /\ users' = [users EXCEPT
                         ![userId] = CompleteDoc(@, Val(journeyQuestId), rewardPoints)]
          /\ txn' = MarkStale(txn, {}, {userId})
          /\ resp' = [Resp("journeyComplete", userId, 200, 0, userId, {}, 1) EXCEPT
                        !.before = Some([journey |-> Val(journeyQuestId),
                                         current |-> users[userId].currentJourneyQuest,
                                         completed |-> Range(CompletedJourneys(users[userId])),
                                         rewardPoints |-> rewardPoints])]
  /\ UNCHANGED <<quests, nextQuestId, credited>>

\* GET /api/quests: the whole Quests collection
ListQuests(uid) ==
  /\ resp' = Resp("listQuests", uid, 200, 0, "", {}, 1)
  /\ UNCHANGED <<users, quests, nextQuestId, txn, credited>>

\* ------------------------------------------------------------ the requests
Items == {"hat", "cape"}
Costs == {1, 3}
UserBodies == [userId : Users, email : Emails, name : Names, role : Roles]
QuestBodies ==
  {[creatorId |-> c, name |-> Some("Q"), radius |-> Some(1),
    points |-> pr[1], reward |-> pr[2]] :
     c \in {None} \cup {Some(u) : u \in Users},
     pr \in {<<Some(r), None>> : r \in RewardValues} \cup {<<None, Some(r)>> : r \in RewardValues}}
\* bodies a client can send to POST /api/quests: a well-formed one, and ones
\* with the name missing or empty, the radius missing or negative, the
\* points or the reward negative
WellFormedQuestBody ==
  [creatorId |-> None, name |-> Some("Q"), radius |-> Some(1),
   points |-> Some(2), reward |-> None]
AnyQuestBodies ==
  { WellFormedQuestBody,
    [WellFormedQuestBody EXCEPT !.name = None],
    [WellFormedQuestBody EXCEPT !.name = Some("")],
    [WellFormedQuestBody EXCEPT !.radius = None],
    [WellFormedQuestBody EXCEPT !.radius = Some(-1)],
    [WellFormedQuestBody EXCEPT !.points = Some(-2)],
    [WellFormedQuestBody EXCEPT !.points = None, !.reward = Some(-2)] }
JourneyIds == {"j1", "j2"}
OptJourneys == {None} \cup {Some(j) : j \in JourneyIds}
Stops == {0, 2}                \* newStop of an advance; below 1 is refused
JourneyRewards == {-1, 1}      \* rewardPoints of a complete; negative is refused
PictureBodies ==
  {[uid |-> Some(u), Name |-> None, Bio |-> None, ProfilePictureUrl |-> Some("url")] :
     u \in Users}
Indices == {None} \cup {Some(i) : i \in -1..MaxSubs}
OptUsers == {None} \cup {Some(u) : u \in Users}

ProfileBodies ==
  [uid : OptUsers, Name : {None, Some("B")}, Bio : {None}, ProfilePictureUrl : {None}]

PatchBodies ==
  [uid : OptUsers, Name : {None, Some("B")}, Bio : {None, Some("bio")},
   ProfilePictureUrl : {None, Some("url")}]

\* The close/approve steps of the request in slot p
TxnStep(p) ==
  \/ TxnSweep(p)
  \/ TxnCommit(p)
  \/ TxnRetry(p)
  \/ TxnAbort(p)

\* The quest lifecycle: creation, accept/abandon, close and approve, with two
\* close/approve requests in flight.
Next ==
  \/ \E uid \in Users, body \in UserBodies : PostUsers(uid, body)
  \/ \E uid \in Users, body \in QuestBodies : PostQuest(uid, body)
  \/ \E uid \in Users, q \in QuestIds : Accept(uid, q)
  \/ \E uid \in Users, q \in QuestIds : Abandon(uid, q)
  \/ \E p \in Procs, uid \in Users, q \in QuestIds : CloseBegin(p, uid, q)
  \/ \E p \in Procs, uid \in Users, q \in QuestIds, u \in OptUsers : ApproveBegin(p, uid, q, u)
  \/ \E p \in Procs : TxnStep(p)

Spec == Init /\ [][Next]_vars

\* The submissions of a quest and the creator-only operations on them.
NextSubs ==
  \/ \E uid \in Users, body \in UserBodies : PostUsers(uid, body)
  \/ \E uid \in Users, body \in QuestBodies : PostQuest(uid, body)
  \/ \E uid \in Users, q \in QuestIds : Accept(uid, q)
  \/ \E uid \in Users, q \in QuestIds, ok \in BOOLEAN, refused \in BOOLEAN :
        Submit(uid, q, ok, refused)
  \/ \E uid \in Users, q \in QuestIds : ListSubmissions(uid, q)
  \/ \E uid \in Users, q \in QuestIds, i \in Indices : RemoveByIndex(uid, q, i)
  \/ \E uid \in Users, q \in QuestIds, u \in OptUsers : RemoveByUser(uid, q, u)
  \/ \E uid \in Users, q \in QuestIds : CloseBegin("p1", uid, q)
  \/ TxnStep("p1")

SpecSubs == Init /\ [][NextSubs]_vars

\* The user documents: the users and profile routes, and the approval of a
\* quest as the one path on which a request awards points to another user.
NextUsers ==
  \/ \E uid \in Users, body \in UserBodies : PostUsers(uid, body)
  \/ \E uid \in Users, userId \in Users : GetUser(uid, userId)
  \/ \E caller \in Users, uid \in OptUsers : ProfileGet(caller, uid)
  \/ \E caller \in Users, body \in ProfileBodies : ProfileUpdate(caller, body)
  \/ \E caller \in Users : AddFields(caller)
  \/ \E uid \in Users : InitFields(uid)
  \/ \E uid \in Users, body \in QuestBodies : PostQuest(uid, body)
  \/ \E uid \in Users, q \in QuestIds : Accept(uid, q)
  \/ \E uid \in Users, q \in QuestIds, u \in OptUsers : ApproveBegin("p1", uid, q, u)
  \/ TxnStep("p1")

SpecUsers == Init /\ [][NextUsers]_vars

\* The routes behind authenticate, one request at a time: the middleware,
\* then the handler it hands the request to.
Headers ==
  {None, Some(<<"InvalidToken">>), Some(<<"Bearer">>), Some(<<"Bearer", "">>),
   Some(<<"Bearer", "expired">>)}
  \cup {Some(<<"Basic", TokenOf[u]>>) : u \in Users}
  \cup {Some(<<"Bearer", TokenOf[u]>>) : u \in Users}

NextAuth ==
  \/ \E authHeader \in Headers : Authenticate(authHeader)
  \/ \E uid \in Users, body \in UserBodies : Passed(uid) /\ PostUsers(uid, body)
  \/ \E uid \in Users, userId \in Users : Passed(uid) /\ GetUser(uid, userId)
  \/ \E uid \in Users, body \in QuestBodies : Passed(uid) /\ PostQuest(uid, body)
  \/ \E uid \in Users, q \in QuestIds : Passed(uid) /\ Accept(uid, q)
  \/ \E uid \in Users, q \in QuestIds : Passed(uid) /\ Abandon(uid, q)
  \/ \E uid \in Users, q \in QuestIds : Passed(uid) /\ ListSubmissions(uid, q)

SpecAuth == Init /\ [][NextAuth]_vars

\* The caller's own profile: created, read, updated, next to the requests
\* that fill the other fields of the document.
NextProfile ==
  \/ \E uid \in Users, body \in UserBodies : PostUsers(uid, body)
  \/ \E uid \in Users : GetProfile(uid)
  \/ \E uid \in Users, body \in PatchBodies : PatchProfile(uid, body)
  \/ \E uid \in Users, body \in QuestBodies : PostQuest(uid, body)
  \/ \E uid \in Users, q \in QuestIds : Accept(uid, q)

SpecProfile == Init /\ [][NextProfile]_vars

\* The spendable points: earned through an approval, spent on inventory items.
NextInventory ==
  \/ \E uid \in Users, body \in UserBodies : PostUsers(uid, body)
  \/ \E uid \in Users, body \in QuestBodies : PostQuest(uid, body)
  \/ \E uid \in Users, q \in QuestIds, u \in OptUsers : ApproveBegin("p1", uid, q, u)
  \/ TxnStep("p1")
  \/ \E uid \in Users, itemId \in Items, cost \in Costs : Unlock(uid, itemId, cost)

SpecInventory == Init /\ [][NextInventory]_vars

\* The sweep among several accepted ids: requests name any id, also one
\* without a quest document.
NextSweep ==
  \/ \E uid \in Users, body \in UserBodies : PostUsers(uid, body)
  \/ \E uid \in Users, body \in QuestBodies : PostQuest(uid, body)
  \/ \E uid \in Users, q \in RequestIds : Accept(uid, q)
  \/ \E uid \in Users, q \in RequestIds : Abandon(uid, q)
  \/ \E uid \in Users, q \in RequestIds : CloseBegin("p1", uid, q)
  \/ \E uid \in Users, q \in RequestIds, u \in OptUsers : ApproveBegin("p1", uid, q, u)
  \/ TxnStep("p1")

SpecSweep == Init /\ [][NextSweep]_vars

\* The whole life of a quest: every operation on it, up to and after its
\* deletion, with one close/approve request in flight.
NextLifecycle ==
  \/ \E uid \in Users, body \in UserBodies : PostUsers(uid, body)
  \/ \E uid \in Users, body \in QuestBodies : PostQuest(uid, body)
  \/ \E uid \in Users, q \in QuestIds : Accept(uid, q)
  \/ \E uid \in Users, q \in QuestIds : Abandon(uid, q)
  \/ \E uid \in Users, q \in QuestIds, ok \in BOOLEAN, refused \in BOOLEAN :
       Submit(uid, q, ok, refused)
  \/ \E uid \in Users, q \in QuestIds : ListSubmissions(uid, q)
  \/ \E uid \in Users, q \in QuestIds, i \in Indices : RemoveByIndex(uid, q, i)
  \/ \E uid \in Users, q \in QuestIds, u \in OptUsers : RemoveByUser(uid, q, u)
  \/ \E uid \in Users, q \in QuestIds : CloseBegin("p1", uid, q)
  \/ \E uid \in Users, q \in QuestIds, u \in OptUsers : ApproveBegin("p1", uid, q, u)
  \/ TxnStep("p1")

SpecLifecycle == Init /\ [][NextLifecycle]_vars

\* Quests created from whatever body the client sends, then accepted,
\* abandoned, closed and approved.
NextCreate ==
  \/ \E uid \in Users, body \in UserBodies : PostUsers(uid, body)
  \/ \E uid \in Users, body \in AnyQuestBodies : PostQuest(uid, body)
  \/ \E uid \in Users, q \in QuestIds : Accept(uid, q)
  \/ \E uid \in Users, q \in QuestIds : Abandon(uid, q)
  \/ \E uid \in Users, q \in QuestIds : CloseBegin("p1", uid, q)
  \/ \E uid \in Users, q \in QuestIds, u \in OptUsers : ApproveBegin("p1", uid, q, u)
  \/ TxnStep("p1")

SpecCreate == Init /\ [][NextCreate]_vars

\* The journey of a user: progress, accept, advance, abandon and complete,
\* with advances in flight, next to the creation of the user document and
\* the accept of a quest.
NextJourney ==
  \/ \E uid \in Users, body \in UserBodies : PostUsers(uid, body)
  \/ \E uid \in Users, q \in QuestIds : Accept(uid, q)
  \/ \E uid \in Users : JourneyProgress(uid)
  \/ \E uid \in Users, j \in OptJourneys : PatchJourneyAccept(uid, j)
  \/ \E uid \in Users : PatchJourneyAbandon(uid)
  \/ \E p \in Procs, uid \in Users, j \in OptJourneys, n \in Stops :
       PatchJourneyAdvance(p, uid, j, n)
  \/ \E uid \in Users, j \in OptJourneys, r \in JourneyRewards : JourneyComplete(uid, j, r)

SpecJourney == Init /\ [][NextJourney]_vars

\* The GET routes, next to the creation of users and quests.
NextReads ==
  \/ \E uid \in Users, body \in UserBodies : PostUsers(uid, body)
  \/ \E uid \in Users, body \in QuestBodies : PostQuest(uid, body)
  \/ \E uid \in Users, q \in QuestIds : Accept(uid, q)
  \/ \E uid \in Users : ListQuests(uid)
  \/ \E uid \in Users, q \in RequestIds : ListSubmissions(uid, q)
  \/ \E uid \in Users, userId \in Users : GetUser(uid, userId)
  \/ \E uid \in Users : GetProfile(uid)
  \/ \E caller \in Users, uid \in OptUsers : ProfileGet(caller, uid)
  \/ \E uid \in Users : JourneyProgress(uid)

SpecReads == Init /\ [][NextReads]_vars

\* A user document that has gathered accepted quests, a profile picture,
\* points and journey progress, and is created again.
NextRecreate ==
  \/ \E uid \in Users, body \in UserBodies : PostUsers(uid, body)
  \/ \E uid \in Users, q \in QuestIds : Accept(uid, q)
  \/ \E uid \in Users, body \in PictureBodies : PatchProfile(uid, body)
  \/ \E uid \in Users : JourneyProgress(uid)
  \/ \E uid \in Users, j \in OptJourneys, r \in JourneyRewards : JourneyComplete(uid, j, r)

SpecRecreate == Init /\ [][NextRecreate]_vars

\* Removals by index in flight next to submits and to each other.
NextRemove ==
  \/ \E uid \in Users, body \in QuestBodies : PostQuest(uid, body)
  \/ \E uid \in Users, q \in QuestIds, ok \in BOOLEAN, refused \in BOOLEAN :
       Submit(uid, q, ok, refused)
  \/ \E p \in Procs, uid \in Users, q \in QuestIds, i \in Indices : RemoveBegin(p, uid, q, i)
  \/ \E p \in Procs : RemoveCommit(p)
  \/ \E p \in Procs : RemoveRetry(p)
  \/ \E p \in Procs : RemoveAbort(p)

SpecRemove == Init /\ [][NextRemove]_vars

\* ================================================================== claims
\* C1: in every reachable state, for every existing quest q and every user u,
\* u is in q's accepted-by set if and only if q is in u's accepted-quests set.
C1_AcceptedPairing ==
  \A q \in QuestIds, u \in Users :
    quests[q].exists => (u \in AcceptedBy(quests[q]) <=> q \in AcceptedSet(users[u]))

\* C2 as stated: a successful accept of q by u directly followed by a
\* successful abandon of q by u leaves q's accepted-by set and u's
\* accepted-quests set as they were before the accept, from any starting state.
RoundTripDone ==
  resp.op = "abandon" /\ resp.status = 200 /\ resp.before # None

RoundTripRestores ==
  /\ AcceptedSet(users[resp.caller]) = Val(resp.before).held
  /\ AcceptedBy(quests[resp.qid]) = Val(resp.before).by

C2_RoundTripAnyStart == RoundTripDone => RoundTripRestores

\* C2 amended: the round trip restores both sets when u did not hold q before
\* the accept.
C2_RoundTripFromNotHeld ==
  (RoundTripDone /\ resp.qid \notin Val(resp.before).held) => RoundTripRestores

C2_Witness == RoundTripDone /\ resp.qid \notin Val(resp.before).held

\* C3 as stated: after a close answered 200, no user holds the quest id and
\* the quest is not retrievable.
CloseDone == resp.op = "close" /\ resp.status = 200

NobodyHolds(q) == \A u \in Users : q \notin AcceptedSet(users[u])

C3_CloseLeavesNoHolder ==
  CloseDone => (NobodyHolds(resp.qid) /\ ~quests[resp.qid].exists)

\* C3 amended: after a close answered 200 during which no accept of the quest
\* was committed after the sweep's query, no user holds the quest id and the
\* quest is not retrievable.
C3_CloseLeavesNoHolderUnraced ==
  (CloseDone /\ ~resp.raced) => (NobodyHolds(resp.qid) /\ ~quests[resp.qid].exists)

C3_Witness == CloseDone /\ ~resp.raced /\ resp.found

\* C4: a successful approve of a quest created with reward r, for an existing
\* approved user v, raises v's SpendablePoints by exactly r, leaves the quest
\* id out of v's accepted-quests and the quest out of the list.
CreatedReward(quest) ==
  IF quest.reward # None THEN Val(quest.reward)
  ELSE IF quest.points # None THEN Val(quest.points) ELSE 0

ApproveDone(r) == r.op = "approve" /\ r.status = 200

C4_ApproveAwardsReward ==
  [][(ApproveDone(resp') /\ users[resp'.uid].exists) =>
       /\ users'[resp'.uid].SpendablePoints =
            users[resp'.uid].SpendablePoints + CreatedReward(quests[resp'.qid])
       /\ resp'.qid \notin AcceptedSet(users'[resp'.uid])
       /\ ~quests'[resp'.qid].exists]_vars

\* C5: an approve that names an approved user, sent by a caller who is not the
\* creator of the existing quest, is answered 403, and no user document and no
\* quest document changes.
ApproveByOther(r) ==
  /\ r.op = "approve" /\ r.uid # ""
  /\ quests[r.qid].exists /\ quests[r.qid].creatorId # r.caller

C5_ApproveByOtherForbidden ==
  [][ApproveByOther(resp') => (resp'.status = 403 /\ users' = users /\ quests' = quests)]_vars

C5_Witness ==
  /\ resp.op = "approve" /\ resp.status = 403
  /\ quests[resp.qid].exists /\ quests[resp.qid].creatorId # resp.caller

\* C6: whatever approve requests run concurrently or repeatedly on a quest,
\* its awards are committed at most once.
C6_CreditedAtMostOnce == \A q \in QuestIds : credited[q] <= 1

\* one approve has committed while another approve of the same quest, which
\* read the quest before that commit, is still in flight
C6_Witness ==
  \E q \in QuestIds, p \in Procs :
    /\ credited[q] = 1
    /\ txn[p].op = "approve" /\ txn[p].qid = q /\ txn[p].pc = "swept" /\ txn[p].stale

\* C7: the creatorId stored by a quest creation is the caller's id, whatever
\* creatorId the body carries.
C7_CreatorFromToken ==
  (resp.op = "postQuest" /\ resp.status = 201) =>
     (quests[resp.qid].exists /\ quests[resp.qid].creatorId = resp.caller)

\* a creation whose body carried another user's id as creatorId
C7_Witness ==
  resp.op = "postQuest" /\ resp.status = 201 /\ resp.uid # "" /\ resp.uid # resp.caller

\* C8: list submissions, remove by index, remove by user and close, sent with
\* a body that passes validation by a caller who is not the creator of the
\* existing quest, are answered 403 and change no quest and no user document.
CreatorOnlyOps == {"listSubmissions", "removeByIndex", "removeByUser", "close"}

CreatorOpByOther(r) ==
  /\ r.op \in CreatorOnlyOps /\ r.status # 400
  /\ quests[r.qid].exists /\ quests[r.qid].creatorId # r.caller

C8_CreatorOnlyForbidden ==
  [][CreatorOpByOther(resp') => (resp'.status = 403 /\ users' = users /\ quests' = quests)]_vars

\* a remove-by-index by another user on a quest that has a submission
C8_Witness ==
  /\ resp.op = "removeByIndex" /\ resp.status = 403
  /\ quests[resp.qid].exists /\ quests[resp.qid].creatorId # resp.caller
  /\ quests[resp.qid].submissions # <<>>

\* C9: a request changes or returns the document of user B only if its caller
\* is B or the change is made by an approval.
C9_OwnDocumentOnly ==
  [][\A b \in Users :
       (users'[b] # users[b] \/ (resp' # resp /\ b \in resp'.reads)) =>
         (resp'.caller = b \/ resp'.op = "approve")]_vars

\* C10: POST /users and GET /users/:userId for another user's id are answered
\* 403 without any store call, and nothing is written.
ForOtherUser(r) == r.op \in {"postUser", "getUser"} /\ r.uid # r.caller

C10_MismatchBeforeStore ==
  [][ForOtherUser(resp') =>
       (resp'.status = 403 /\ resp'.storeCalls = 0 /\ users' = users /\ quests' = quests)]_vars

C10_Witness ==
  /\ resp.op = "getUser" /\ resp.uid # resp.caller /\ resp.status = 403
  /\ users[resp.uid].exists

\* C11: after a POST /users answered 200 for caller u, the document of u
\* holds the email, name and role of the body, zero LeaderBoardPoints, Level,
\* SpendablePoints and Experience, an empty Bio and empty CompletedQuests and
\* Quests, and a GET /users/u by u is then answered 200 with Level 0 and
\* SpendablePoints 0.
UserCreated == resp.op = "postUser" /\ resp.status = 200

C11_CreatedUserZeroed ==
  UserCreated =>
    LET doc == users[resp.caller]
        got == GetUserResult(resp.caller, resp.caller) IN
    /\ doc.exists
    /\ doc.Email \in Emails /\ doc.Name \in Names /\ doc.Role \in Roles
    /\ doc.LeaderBoardPoints = 0 /\ doc.Level = 0
    /\ doc.SpendablePoints = 0 /\ doc.Experience = 0
    /\ doc.Bio = "" /\ doc.CompletedQuests = <<>> /\ doc.Quests = <<>>
    /\ got.status = 200 /\ got.data.Level = 0 /\ got.data.SpendablePoints = 0

\* a user created again after an approval had awarded points to the document
C11_Witness == UserCreated /\ \E q \in QuestIds : credited[q] = 1

\* C12: behind authenticate a route handler runs only for a request whose
\* Authorization header starts with "Bearer " and carries a token the
\* verifier accepts, and it runs as the verified identity; any other request
\* is answered 401 with no store call and nothing changed.
Accepted(authHeader, uid) ==
  /\ authHeader # None
  /\ Len(Val(authHeader)) >= 2 /\ Val(authHeader)[1] = "Bearer"
  /\ Val(authHeader)[2] = TokenOf[uid]

HandlerRan == resp'.op # "authenticate" /\ resp' # resp

C12_HandlerOnlyAfterVerification ==
  [][/\ HandlerRan =>
          (resp.op = "authenticate" /\ Accepted(resp.header, resp'.caller))
     /\ (resp'.op = "authenticate" /\ \A u \in Users : ~Accepted(resp'.header, u)) =>
          (resp'.status = 401 /\ resp'.storeCalls = 0 /\ users' = users /\ quests' = quests)
    ]_vars

\* a request with a Basic header that carries a valid token was answered 401
\* after other requests had created a user and a quest
C12_Witness ==
  /\ resp.op = "authenticate" /\ resp.status = 401
  /\ resp.header = Some(<<"Basic", TokenOf["u1"]>>)
  /\ users["u1"].exists /\ quests[1].exists

\* C13: a submit, list submissions, remove by index, remove by user, approve
\* or close that passes validation and names a quest id without a document,
\* and a GET /users/:id of the caller's own id or a GET /users/profile
\* without a document of the caller, is answered 404.
QuestLookupOps ==
  {"submit", "listSubmissions", "removeByIndex", "removeByUser", "approve", "close"}

AbsentDocument(r) ==
  \/ r.op \in QuestLookupOps /\ ~quests[r.qid].exists
  \/ r.op = "getUser" /\ r.uid = r.caller /\ ~users[r.uid].exists
  \/ r.op = "getProfile" /\ ~users[r.caller].exists

C13_AbsentAnswers404 ==
  [][(resp' # resp /\ resp'.status \notin {0, 400} /\ AbsentDocument(resp')) =>
       resp'.status = 404]_vars

\* C14: a remove by index sent by the creator of an existing quest with an
\* index that is not a number, is negative, or is at least the number of
\* submissions of the quest, is answered 400 and writes nothing.
InvalidIndex(submissionIndex, quest) ==
  \/ submissionIndex = None
  \/ Val(submissionIndex) < 0
  \/ Val(submissionIndex) >= Len(quest.submissions)

C14_InvalidIndexAnswers400 ==
  \A q \in QuestIds, i \in Indices :
    (quests[q].exists /\ InvalidIndex(i, quests[q])) =>
      LET r == RemoveByIndexResult(quests[q].creatorId, quests[q], i) IN
      r.status = 400 /\ ~r.write /\ r.submissions = quests[q].submissions

\* C15: no quest ever holds two submissions of one user, and a submit with a
\* complete body by user u on an existing quest leaves exactly one submission
\* of u in the quest's submissions, as its last element.
SubmissionsOf(quest, u) == {i \in 1..Len(quest.submissions) : quest.submissions[i].userId = u}

OnePerUser(qs) ==
  \A q \in QuestIds, u \in Users : Cardinality(SubmissionsOf(qs[q], u)) <= 1

SubmitHandled(r) ==
  r.op = "submit" /\ r.status # 400 /\ quests[r.qid].exists

C15_OneSubmissionPerUser ==
  [][/\ OnePerUser(quests')
     /\ (resp' # resp /\ SubmitHandled(resp')) =>
          SubmissionsOf(quests'[resp'.qid], resp'.caller) =
            {Len(quests'[resp'.qid].submissions)}
    ]_vars

\* C16: an approve whose approvedUserId names no user document is not
\* answered 200, does not delete the quest and changes no user's points.
Points(us) ==
  [u \in Users |-> <<us[u].SpendablePoints, us[u].LeaderBoardPoints, us[u].Experience>>]

ApproveOfAbsentUser(r) ==
  r.op = "approve" /\ r.status # 0 /\ r.uid \in Users /\ ~users[r.uid].exists

C16_ApproveNeedsUser ==
  [][(resp' # resp /\ ApproveOfAbsentUser(resp')) =>
       (resp'.status # 200 /\ quests' = quests /\ Points(users') = Points(users))]_vars

\* C17: an unlock of an item the user has already unlocked is answered 400
\* "already unlocked" and leaves the user's spendable points and inventory,
\* and every other document, as they were.
UnlockOfHeldItem(r) ==
  r.op = "unlock" /\ users[r.caller].exists /\ r.item \in users[r.caller].inventoryItems

C17_SecondUnlockRefused ==
  [][(resp' # resp /\ UnlockOfHeldItem(resp')) =>
       (resp'.status = 400 /\ resp'.error = ErrAlreadyUnlocked /\ users' = users)]_vars

\* the second unlock was refused although the user could have paid again
C17_Witness ==
  /\ resp.op = "unlock" /\ resp.status = 400 /\ resp.error = ErrAlreadyUnlocked
  /\ users[resp.caller].SpendablePoints >= resp.cost

\* C18: an unlock whose cost is above the user's spendable points is answered
\* 400 and leaves the points and the inventory unchanged, and no step leaves
\* a user with spendable points below zero.
UnlockTooDear(r) ==
  r.op = "unlock" /\ users[r.caller].exists /\ r.cost > users[r.caller].SpendablePoints

C18_NoUnlockBeyondPoints ==
  [][/\ (resp' # resp /\ UnlockTooDear(resp')) => (resp'.status = 400 /\ users' = users)
     /\ \A u \in Users : users'[u].SpendablePoints >= 0
    ]_vars

\* points were spent down to less than the cost of the item refused: the
\* user holds an item and the last unlock failed for lack of points
C18_Witness ==
  /\ resp.op = "unlock" /\ resp.status = 400 /\ resp.error = ErrInsufficientPoints
  /\ users[resp.caller].inventoryItems # {}
  /\ resp.cost = 1

\* C19: a PATCH /users/profile by u changes, in u's document, only the
\* fields among Name, Bio and ProfilePictureUrl that the body defines, sets
\* those to the values of the body when it is answered 200, changes no other
\* document, and makes no store call when the body defines none of the three.
ProfilePatched(r) == r.op = "patchProfile"

SameExceptProfileFields(new, old) ==
  [new EXCEPT !.Name = old.Name, !.Bio = old.Bio,
              !.ProfilePictureUrl = old.ProfilePictureUrl] = old

C19_PatchTouchesNamedFieldsOnly ==
  [][(resp' # resp /\ ProfilePatched(resp')) =>
       LET u == resp'.caller
           b == resp'.body IN
       /\ \A v \in Users \ {u} : users'[v] = users[v]
       /\ quests' = quests
       /\ SameExceptProfileFields(users'[u], users[u])
       /\ b.Name = None => users'[u].Name = users[u].Name
       /\ b.Bio = None => users'[u].Bio = users[u].Bio
       /\ b.ProfilePictureUrl = None =>
            users'[u].ProfilePictureUrl = users[u].ProfilePictureUrl
       /\ (resp'.status = 200 /\ users[u].exists) =>
            /\ b.Name # None => users'[u].Name = Val(b.Name)
            /\ b.Bio # None => users'[u].Bio = Val(b.Bio)
            /\ b.ProfilePictureUrl # None => users'[u].ProfilePictureUrl = b.ProfilePictureUrl
       /\ EmptyUpdateObj(b) => (resp'.storeCalls = 0 /\ users' = users)
    ]_vars

\* a patch of the Bio alone on a document that holds an accepted quest
C19_Witness ==
  /\ resp.op = "patchProfile" /\ resp.status = 200
  /\ resp.body.Name = None /\ resp.body.Bio # None /\ resp.body.ProfilePictureUrl = None
  /\ users[resp.caller].Bio = "bio" /\ users[resp.caller].Name = "A"
  /\ AcceptedSet(users[resp.caller]) # {}

\* C20: no user's accepted-quests array holds a quest id twice; an accept of
\* a quest the user already holds changes no document; an abandon of a quest
\* the user does not hold leaves every accepted-quests set, every other field
\* of the user's document and every quest as they were.
NoDuplicates(us) ==
  \A u \in Users :
    us[u].acceptedQuests # None =>
      LET s == Val(us[u].acceptedQuests) IN
      \A i, j \in 1..Len(s) : s[i] = s[j] => i = j

AcceptOfHeld(r) ==
  r.op = "accept" /\ r.status = 200 /\ r.qid \in AcceptedSet(users[r.caller])

AbandonOfNotHeld(r) ==
  r.op = "abandon" /\ r.status = 200 /\ r.qid \notin AcceptedSet(users[r.caller])

C20_AcceptAbandonIdempotent ==
  [][/\ NoDuplicates(users')
     /\ AcceptOfHeld(resp') => (users' = users /\ quests' = quests)
     /\ AbandonOfNotHeld(resp') =>
          /\ quests' = quests
          /\ \A u \in Users :
               /\ AcceptedSet(users'[u]) = AcceptedSet(users[u])
               /\ [users'[u] EXCEPT !.acceptedQuests = users[u].acceptedQuests] = users[u]
    ]_vars

\* the second of two accepts of the same quest by the same user
C20_Witness ==
  /\ resp.op = "accept" /\ resp.status = 200
  /\ resp.qid \in Val(resp.before).held
  /\ users[resp.caller].acceptedQuests = Some(<<resp.qid>>)

\* C21: the award to an existing approved user, the creator's half and the
\* deletion of the quest are applied in one step or not at all: a step in
\* which an approve deletes the quest applies both awards, and spendable or
\* leaderboard points rise only in a step in which an approve deletes a quest.
DeletedByApprove(q) ==
  quests[q].exists /\ ~quests'[q].exists /\ resp'.op = "approve" /\ resp'.status = 200

PointsRise ==
  \E u \in Users :
    \/ users'[u].SpendablePoints > users[u].SpendablePoints
    \/ users'[u].LeaderBoardPoints > users[u].LeaderBoardPoints

C21_ApproveAllOrNothing ==
  [][/\ \A q \in QuestIds :
          (DeletedByApprove(q) /\ resp'.qid = q /\ users[resp'.uid].exists) =>
            LET v == resp'.uid
                c == quests[q].creatorId
                r == RewardPoints(quests[q]) IN
            /\ users'[v].LeaderBoardPoints = users[v].LeaderBoardPoints + r
            /\ q \notin AcceptedSet(users'[v])
            /\ IF c = v
               THEN users'[v].SpendablePoints = users[v].SpendablePoints + r
               ELSE /\ users'[v].SpendablePoints = users[v].SpendablePoints + r
                    /\ users'[c].SpendablePoints = users[c].SpendablePoints + (r \div 2)
     /\ PointsRise => \E q \in QuestIds : DeletedByApprove(q)
     /\ (resp'.op = "approve" /\ resp'.status \notin {0, 200}) =>
          (Points(users') = Points(users) /\ quests' = quests)
    ]_vars

\* an approve for another user committed: both awards are in the documents
\* and the quest is gone
C21_Witness ==
  /\ resp.op = "approve" /\ resp.status = 200 /\ resp.uid # resp.caller
  /\ users[resp.uid].SpendablePoints = 2 /\ users[resp.caller].SpendablePoints = 1
  /\ ~quests[resp.qid].exists

\* C22: the sweep of an approve is issued only after the approval
\* transaction has committed: in no state has the sweep's batch written to
\* user documents while the approve transaction that issued it is still
\* uncommitted.
SweepWrittenUncommitted(p) ==
  /\ txn[p].op = "approve" /\ txn[p].pc = "swept" /\ txn[p].found
  /\ quests[txn[p].qid].exists

C22_SweepAfterCommit ==
  \A p \in Procs : ~SweepWrittenUncommitted(p)

\* C23: an Accept of q by u that commits after a Close of q has run its
\* sweep and before it deletes q is neither undone nor noticed by the Close:
\* the accept leaves q in u's accepted quests and leaves the Close able to
\* commit, so the state in which q is deleted and still accepted by u is
\* reachable.
AcceptAfterSweep(p) ==
  /\ txn[p].op = "close" /\ txn[p].pc = "swept" /\ CanCommit(txn[p])
  /\ resp'.op = "accept" /\ resp'.status = 200 /\ resp'.qid = txn[p].qid

C23_AcceptRacesClose ==
  [][\A p \in Procs :
       AcceptAfterSweep(p) =>
         /\ resp'.qid \in AcceptedSet(users'[resp'.caller])
         /\ txn'[p].pc = "swept" /\ CanCommit(txn'[p]) /\ txn'[p].raced
         /\ quests' = quests
    ]_vars

\* the Close has committed after such an accept: q is deleted and u, who
\* exists and accepted q after the sweep, still holds its id
C23_Witness ==
  /\ resp.op = "close" /\ resp.status = 200 /\ resp.raced
  /\ ~quests[resp.qid].exists /\ nextQuestId > resp.qid
  /\ \E u \in Users : users[u].exists /\ resp.qid \in AcceptedSet(users[u])

\* C24: the sweep for q is idempotent and touches only q: sweeping twice
\* gives what sweeping once gives; a user who does not hold q is unchanged;
\* for a user who holds q only q's id leaves the accepted quests, the other
\* ids stay in their order and every other field is kept.
SweepOnce(us, q) == SweepUsers(us, UsersToClean(us, q), q)

OthersInOrder(doc, q) ==
  SelectSeq(Val(doc.acceptedQuests), LAMBDA x : x # q)

C24_SweepIdempotentLocal ==
  \A q \in RequestIds :
    LET once == SweepOnce(users, q) IN
    /\ SweepOnce(once, q) = once
    /\ \A u \in Users :
         IF q \in AcceptedSet(users[u])
         THEN /\ Val(once[u].acceptedQuests) = OthersInOrder(users[u], q)
              /\ [once[u] EXCEPT !.acceptedQuests = None]
                   = [users[u] EXCEPT !.acceptedQuests = None]
         ELSE once[u] = users[u]

\* a sweep for one id has run over a user who held two, and the other id
\* is still accepted
C24_Witness ==
  /\ txn["p1"].pc = "swept" /\ txn["p1"].found
  /\ ~users["u2"].exists
  /\ AcceptedSet(users["u1"]) = RequestIds \ {txn["p1"].qid}

\* C25: a Close or Approve that does not succeed (403, 404, 500, a failed
\* commit included) leaves every user's accepted quests as they were: no
\* request ends with a failure answer after its own sweep has removed the
\* id of a quest that still exists from a user document.
EndsFailed(p) ==
  /\ txn[p].pc # "idle" /\ txn'[p].pc = "idle"
  /\ resp'.op \in {"close", "approve"} /\ resp'.status \in {403, 404, 500}

C25_FailureLeavesAccepted ==
  [][\A p \in Procs :
       EndsFailed(p) => ~(txn[p].found /\ quests'[txn[p].qid].exists)
    ]_vars

\* C26: Accept requires the quest to exist: an accept that names an id with
\* no quest document does not add that id to the caller's accepted quests.
AcceptOfAbsentQuest ==
  resp'.op = "accept" /\ resp' # resp /\ ~quests[resp'.qid].exists

C26_AcceptNeedsQuest ==
  [][AcceptOfAbsentQuest =>
       (resp'.qid \in AcceptedSet(users'[resp'.caller])
          => resp'.qid \in AcceptedSet(users[resp'.caller]))
    ]_vars

\* C27: a successful approve of a quest with reward r for an existing user v
\* raises v's LeaderBoardPoints by r and v's Experience by r and appends one
\* completed-quest snapshot to v's completed quests.
C27_ApproveRaisesBoardAndExperience ==
  [][(ApproveDone(resp') /\ resp' # resp /\ users[resp'.uid].exists) =>
       LET v == resp'.uid
           r == CreatedReward(quests[resp'.qid]) IN
       /\ users'[v].LeaderBoardPoints = users[v].LeaderBoardPoints + r
       /\ users'[v].Experience = users[v].Experience + r
       /\ Len(users'[v].CompletedQuests) = Len(users[v].CompletedQuests) + 1
    ]_vars

\* C28: on a successful approve of a quest with reward r, a creator who is
\* not the approved user gains exactly r/2 SpendablePoints and nothing on
\* the other accumulators; a creator who is the approved user gains r once
\* and no half-reward on top.
C28_CreatorShare ==
  [][(ApproveDone(resp') /\ resp' # resp /\ users[resp'.uid].exists) =>
       LET v == resp'.uid
           c == quests[resp'.qid].creatorId
           r == CreatedReward(quests[resp'.qid]) IN
       IF c # v
       THEN /\ users'[c].SpendablePoints = users[c].SpendablePoints + (r \div 2)
            /\ users'[c].LeaderBoardPoints = users[c].LeaderBoardPoints
            /\ users'[c].Experience = users[c].Experience
       ELSE users'[v].SpendablePoints = users[v].SpendablePoints + r
    ]_vars

\* C29: an approve awards points only to a user who has a submission on the
\* quest: the approved user's points rise only if the quest's submissions
\* hold one of that user.
ApprovedGains ==
  LET v == resp'.uid IN
  /\ ApproveDone(resp') /\ resp' # resp /\ users[v].exists
  /\ \/ users'[v].SpendablePoints > users[v].SpendablePoints
     \/ users'[v].LeaderBoardPoints > users[v].LeaderBoardPoints

C29_AwardNeedsSubmission ==
  [][ApprovedGains => SubmissionsOf(quests[resp'.qid], resp'.uid) # {}]_vars

\* C30: a deleted quest stays deleted: once the document of a created quest
\* is gone, no step recreates or changes a document under its id, and a
\* later read of its submissions is answered 404.
Deleted(q) == q < nextQuestId /\ ~quests[q].exists

C30_ClosedIsTerminal ==
  [][\A q \in QuestIds :
       Deleted(q) =>
         /\ quests'[q] = NoQuest
         /\ (resp'.op = "listSubmissions" /\ resp'.qid = q) => resp'.status = 404
    ]_vars

\* a submit with a complete body was sent to a quest that had been deleted
\* and was answered with a failure, the document still absent
C30_Witness ==
  /\ resp.op = "submit" /\ resp.status = 500
  /\ Deleted(resp.qid) /\ quests[resp.qid] = NoQuest
  /\ \E u \in Users : users[u].SpendablePoints > 0

\* C31: a user's leaderboard points never decrease: in every step other than
\* the creation of a user document, every user's LeaderBoardPoints is at
\* least what it was.
C31_LeaderBoardNeverDecreases ==
  [][resp'.op # "postUser" =>
       \A u \in Users : users'[u].LeaderBoardPoints >= users[u].LeaderBoardPoints
    ]_vars

\* C32: quest creation validates its input before storing: a create whose
\* name is missing or empty, or whose radius or reward is missing or
\* negative, is refused and creates no quest document.
NonNegative(field) == field # None /\ Val(field) >= 0

ValidQuestInput(quest) ==
  /\ quest.name # None /\ quest.name # Some("")
  /\ NonNegative(quest.radius)
  /\ NonNegative(quest.reward) \/ NonNegative(quest.points)
  /\ \A f \in {quest.reward, quest.points} : f = None \/ NonNegative(f)

C32_CreateValidates ==
  \A q \in QuestIds : quests[q].exists => ValidQuestInput(quests[q])

\* C36: a user with no current journey quest is at stop 1, and a successful
\* advance for journey j writes the stop only while j is still the user's
\* current journey, under every interleaving of the user's journey accept,
\* advance, abandon and complete requests.
NoJourneyAtStopOne(us) ==
  \A u \in Users :
    (us[u].exists /\ us[u].currentJourneyQuest = None) => JourneyStopOf(us[u]) = 1

AdvanceWritten(r) == r.op = "journeyAdvance" /\ r.status = 200

CompletePays ==
  /\ resp'.op = "journeyComplete" /\ resp'.status = 200 /\ resp' # resp
  /\ \/ users'[resp'.caller].SpendablePoints > users[resp'.caller].SpendablePoints
     \/ users'[resp'.caller].LeaderBoardPoints > users[resp'.caller].LeaderBoardPoints

C35_CompleteCurrentOnce ==
  [][CompletePays =>
       LET j == Val(resp'.before).journey IN
       /\ users[resp'.caller].currentJourneyQuest = Some(j)
       /\ j \notin Range(CompletedJourneys(users[resp'.caller]))
    ]_vars

\* C37 as stated: every GET route (list quests, list submissions, get user,
\* get profile, get journey progress) leaves all quest and user documents
\* unchanged, whether or not the requested document exists.
ReadOps ==
  {"listQuests", "listSubmissions", "getUser", "getProfile", "profileGet",
   "journeyProgress"}

InitialProgress(doc) ==
  /\ doc.exists
  /\ doc.currentJourneyQuest = None
  /\ doc.currentJourneyStop = Some(1)
  /\ doc.completedJourneyQuests = Some(<<>>)
  /\ [doc EXCEPT !.exists = FALSE, !.currentJourneyStop = None,
                 !.completedJourneyQuests = None] = NoUser

RecreatedUser ==
  resp'.op = "postUser" /\ resp' # resp /\ resp'.caller = resp'.uid /\ users[resp'.uid].exists

Zeroed(doc) ==
  /\ doc.exists
  /\ doc.LeaderBoardPoints = 0 /\ doc.SpendablePoints = 0 /\ doc.Experience = 0
  /\ doc.Level = 0
  /\ doc.acceptedQuests = None /\ doc.ProfilePictureUrl = None
  /\ doc.currentJourneyQuest = None /\ doc.currentJourneyStop = None
  /\ doc.completedJourneyQuests = None

C33_RecreateOverwrites ==
  [][RecreatedUser => (resp'.status = 200 /\ Zeroed(users'[resp'.uid]))]_vars

\* a user who had points, an accepted quest, a profile picture and a
\* completed journey was created again and holds none of them
C33_Witness ==
  /\ resp.op = "postUser" /\ resp.status = 200 /\ resp.before # None
  /\ Val(resp.before).LeaderBoardPoints > 0
  /\ Val(resp.before).acceptedQuests # None
  /\ Val(resp.before).ProfilePictureUrl # None
  /\ CompletedJourneys(Val(resp.before)) # <<>>
  /\ Zeroed(users[resp.uid])

\* C34: a successful remove by index i on a quest with n submissions removes
\* exactly the submission at position i of the state the transaction read,
\* keeps the other n-1 in their order and changes no other field of the
\* quest, also when a submit on the same quest runs next to it: the
\* submissions the commit finds are the ones the transaction read.
RemovedByIndex == resp'.op = "removeByIndex" /\ resp'.status = 200 /\ resp' # resp

C34_RemoveExactlyIndexed ==
  [][RemovedByIndex =>
       LET q == resp'.qid
           read == Val(resp'.before).read
           i == Val(resp'.before).index + 1
           new == quests'[q].submissions IN
       /\ quests[q].submissions = read
       /\ i \in 1..Len(read)
       /\ Len(new) = Len(read) - 1
       /\ \A k \in 1..Len(new) : new[k] = IF k < i THEN read[k] ELSE read[k + 1]
       /\ [quests'[q] EXCEPT !.submissions = <<>>] = [quests[q] EXCEPT !.submissions = <<>>]
       /\ users' = users
    ]_vars

\* a removal of the second of two submissions of different users has
\* committed after another write of the quest made its first attempt run again
C34_Witness ==
  /\ resp.op = "removeByIndex" /\ resp.status = 200 /\ resp.raced
  /\ Val(resp.before).index = 1
  /\ Len(Val(resp.before).read) = 2
  /\ Val(resp.before).read[1].userId # Val(resp.before).read[2].userId
  /\ quests[resp.qid].submissions = <<Val(resp.before).read[1]>>

====
